---- MODULE Spec2Model ----
(***************************************************************************)
(* A model of the MTG bulk-order optimiser: optimise_purchases and         *)
(* save_results of src/optimiser.py, as called by main of                  *)
(* src/run_optimiser.py.                                                   *)
(*                                                                         *)
(* Money is held in tenths of a dollar so that a discount multiplier with  *)
(* one decimal (0.9) stays exact: a price p is Tenths(p), and the          *)
(* discounted price p * 0.9 is p * 9.                                      *)
(***************************************************************************)
EXTENDS Integers, FiniteSets, Sequences, TLC

VARIABLES
    cfg,                 \* the caller's arguments that the code only reads
    shipping_costs,      \* the shipping_costs dict object (mutated in place)
    pc,                  \* position in main / optimise_purchases
    run,                 \* number of the current call of optimise_purchases
    vendors, K,          \* locals of optimise_purchases (L162-173)
    available_mandatory, available_optional,
    unavailable_mandatory, unavailable_optional,
    validated,           \* validate_tag_constraints returned normally in this call
    solver_calls,        \* number of model.solve() calls in this call
    status, x, z, y,     \* the solver's status and variable values
    exc,                 \* the exception that ended the call, or NoExc
    report               \* what save_results wrote

vars == <<cfg, shipping_costs, pc, run, vendors, K, available_mandatory,
          available_optional, unavailable_mandatory, unavailable_optional,
          validated, solver_calls, status, x, z, y, exc, report>>

----------------------------------------------------------------------------
(* Bounds and program constants *)

\* optimiser.py L7: the price that stands for "not offered"
BIG_M == 9999

\* the largest configured count (min_optional_cards, tag minimum/maximum/target)
MaxCount == 2

\* the number of times the caller invokes optimise_purchases on the same objects
MaxRuns == 2

Tenths(n) == n * 10

None == "None"
NoExc == [type |-> "none", site |-> "none", detail |-> "none"]
NoReport == [written |-> "no"]

\* str.lower() on the identifiers of the model
Lower(s) ==
    CASE s = "A" -> "a"
      [] s = "B" -> "b"
      [] s = "X" -> "x"
      [] s = "Y" -> "y"
      [] s = "Z" -> "z"
      [] OTHER -> s

RECURSIVE SumOver(_, _)
\* sum(f[e] for e in S)
SumOver(S, f) ==
    IF S = {} THEN 0
    ELSE LET e == CHOOSE e \in S : TRUE
         IN  f[e] + SumOver(S \ {e}, f)

Min2(a, b) == IF a <= b THEN a ELSE b

\* min(S) of a non-empty set of integers
MinOf(S) == CHOOSE m \in S : \A n \in S : m <= n

----------------------------------------------------------------------------
(* The inputs of the runs *)

VendorIds == {"a", "A", "b"}
CardIds == {"x", "y", "z"}
Tags == {"red"}
ConstraintKeys == {"minimum", "maximum", "target"}

\* the vendors of the price records
VendorSets == {{}, {"a"}, {"A"}, {"a", "b"}, {"a", "A"}}

\* what a vendor's price record for a card says: L = a listed price,
\* S = the sentinel BIG_M (price_scraper.py L126), A = no record for the pair
Listings == {"L", "S", "A"}

ListPrice(v, c) ==
    (CASE v = "a" -> 10 [] v = "A" -> 8 [] OTHER -> 8)
    + (CASE c = "x" -> 0 [] c = "y" -> 1 [] OTHER -> 2)

\* the rows of one card over the vendors VS: every vendor has a record for
\* the card (as scrape_prices writes them, price_scraper.py L124-131), or
\* none has (the card is in no record at all)
CompleteRows(VS) ==
    {r \in [VS -> Listings] :
        (\E v \in VS : r[v] = "A") => \A v \in VS : r[v] = "A"}

\* the rows of a price file that also lacks single records: vendor "a" has
\* a record whenever another vendor has
Rows(VS) ==
    {r \in [VS -> Listings] :
        ("a" \in VS /\ r["a"] = "A") => \A v \in VS : r[v] = "A"}

\* the tables of the runs: card "y" may lack single records, and every
\* vendor says the same of card "z"
Tables(VS) ==
    {rows \in [CardIds -> Rows(VS)] :
        /\ rows["x"] \in CompleteRows(VS)
        /\ \A v, w \in VS : rows["z"][v] = rows["z"][w]}

\* the tables in which every vendor lists every card, at a price or at the
\* sentinel, the same for every vendor, and card "x" at a price
UniformTables(VS) ==
    {rows \in [CardIds -> [VS -> {"L", "S"}]] :
        /\ \A c \in CardIds : \A v, w \in VS : rows[c][v] = rows[c][w]
        /\ \A v \in VS : rows["x"][v] = "L"}

\* K_json, the price records, as the mapping the dict comprehension of
\* L165-167 keeps: (vendor, card) -> price
PriceRecords(VS, rows) ==
    [p \in {q \in VS \X CardIds : rows[q[2]][q[1]] # "A"} |->
        IF rows[p[2]][p[1]] = "L" THEN ListPrice(p[1], p[2]) ELSE BIG_M]

\* config["shipping_costs"]: vendor -> [shipping cost, pickup city, pickup cost]
ShippingList(v) ==
    CASE v = "a" -> [kind |-> "list", ship |-> 5, city |-> "akl", pickup |-> 0, cost |-> 0]
      [] v = "A" -> [kind |-> "list", ship |-> 8, city |-> "wlg", pickup |-> 2, cost |-> 0]
      [] OTHER   -> [kind |-> "list", ship |-> 8, city |-> "wlg", pickup |-> 2, cost |-> 0]

NoShipping == [v \in {} |-> ShippingList(v)]
FullShipping == [v \in VendorIds |-> ShippingList(v)]

\* shipping_costs with the buyer's pickup cities
ShippingOptions ==
    {[costs |-> NoShipping, cities |-> {}],
     [costs |-> FullShipping, cities |-> {}],
     [costs |-> FullShipping, cities |-> {"akl"}]}

\* vendor_discounts: vendor -> multiplier, in tenths (9 is 0.9)
DiscountOptions == {[v \in {} |-> 10], [v \in {"a"} |-> 9]}

Penalties == {0, 2}

\* the buyer's mandatory and optional lists
ListOptions ==
    {[mandatory |-> m, optional |-> o] :
        <<m, o>> \in {<<{"x", "y"}, {"z"}>>, <<{"x"}, {"y", "z"}>>,
                      <<{"x", "y"}, {}>>, <<{}, {"x", "y", "z"}>>}}

PricingLists ==
    {[mandatory |-> {"x", "y"}, optional |-> {"z"}],
     [mandatory |-> {"x"}, optional |-> {"y", "z"}]}

\* card_tags: lowercase card name -> tags (run_optimiser.py L94-111)
TagOptions ==
    {[c \in red |-> {"red"}] : red \in {{}, {"x", "y"}, {"y", "z"}, {"x", "y", "z"}}}

\* one tag's constraint dict: some of minimum, maximum, target, each 0..MaxCount
ConstraintDicts ==
    UNION {[keys -> 0..MaxCount] : keys \in (SUBSET ConstraintKeys) \ {{}}}

\* tag_constraints: tag -> constraint dict
TagConstraintOptions ==
    {[t \in {} |-> None]} \cup {[t \in Tags |-> d] : d \in ConstraintDicts}

MakeCfg(VS, rows, lists, m, disc, ship, pen, tags, tcs) ==
    [K_json |-> PriceRecords(VS, rows),
     vendor_penalty |-> pen,
     vendor_discounts |-> disc,
     mandatory_cards |-> lists.mandatory,
     optional_cards |-> lists.optional,
     min_optional_cards |-> m,
     cities_im_in |-> ship.cities,
     card_tags |-> tags,
     tag_constraints |-> tcs,
     shipping_input |-> ship.costs]

----------------------------------------------------------------------------
(* State after construction: main has loaded the configuration and the     *)
(* price records and is about to call optimise_purchases (L179).           *)

NoSolution == [v \in {} |-> 0]

Locals0 ==
    /\ vendors = {}
    /\ K = [p \in {} |-> 0]
    /\ available_mandatory = {}
    /\ available_optional = {}
    /\ unavailable_mandatory = {}
    /\ unavailable_optional = {}
    /\ validated = "pending"
    /\ solver_calls = 0
    /\ status = None
    /\ x = NoSolution
    /\ z = NoSolution
    /\ y = NoSolution
    /\ exc = NoExc
    /\ report = NoReport

NoTags == [c \in {} |-> {}]
NoTagConstraints == [t \in {} |-> None]

\* runs that vary the price records, discounts, shipping and penalty
InitPricing ==
    \E VS \in VendorSets :
    \E rows \in Tables(VS), lists \in PricingLists, m \in {0, MaxCount},
       disc \in DiscountOptions, ship \in ShippingOptions, pen \in Penalties :
        cfg = MakeCfg(VS, rows, lists, m, disc, ship, pen, NoTags, NoTagConstraints)

\* runs that vary the card lists, the optional quota and the tag constraints
InitTags ==
    \E rows \in UniformTables({"a", "b"}), lists \in ListOptions,
       m \in 0..MaxCount, tags \in TagOptions, tcs \in TagConstraintOptions :
        cfg = MakeCfg({"a", "b"}, rows, lists, m, [v \in {} |-> 10],
                      [costs |-> FullShipping, cities |-> {}], 2, tags, tcs)

\* price records of vendor "a" whose card names keep the casing of the
\* price file: x (or X) at 10, y at 11
CasingRecords ==
    {[p \in {"a"} \X cs |-> IF Lower(p[2]) = "x" THEN 10 ELSE 11] :
        cs \in {{"X", "y"}, {"x", "y"}, {"X"}}}

\* buyer's lists whose entries keep the casing of the configuration
CasingLists ==
    {[mandatory |-> {"X"}, optional |-> {"y"}],
     [mandatory |-> {"x"}, optional |-> {"Y"}],
     [mandatory |-> {"X", "Y"}, optional |-> {}]}

\* runs that vary the letter case of the card names
InitCasing ==
    \E recs \in CasingRecords, lists \in CasingLists,
       ship \in ShippingOptions, pen \in Penalties :
        cfg = [MakeCfg({}, [c \in CardIds |-> [v \in {} |-> "A"]], lists, 0,
                       [v \in {} |-> 10], ship, pen, NoTags, NoTagConstraints)
                  EXCEPT !.K_json = recs]

Init ==
    /\ InitPricing \/ InitTags \/ InitCasing
    /\ shipping_costs = cfg.shipping_input
    /\ pc = "start"
    /\ run = 1
    /\ Locals0

----------------------------------------------------------------------------
(* optimise_purchases, L152-156: the shipping resolver *)

TypeError(site) == [type |-> "TypeError", site |-> site, detail |-> "not subscriptable"]
KeyError(site) == [type |-> "KeyError", site |-> site, detail |-> "missing key"]

\* L153-156: the effective cost of one vendor's [shipping, city, pickup] entry
EffectiveShipping(entry, cities) ==
    [kind |-> "num", ship |-> 0, city |-> None, pickup |-> 0,
     cost |-> IF entry.city \in cities THEN entry.pickup ELSE entry.ship]

\* L152-156. The loop assigns into the caller's dict; an entry that is
\* already a number cannot be subscripted (shipping_costs[vendor][1]).
ResolveShipping ==
    /\ pc = "start"
    /\ IF \E v \in DOMAIN shipping_costs : shipping_costs[v].kind = "num"
       THEN /\ exc' = TypeError("resolve_shipping")
            /\ pc' = "raised"
            /\ UNCHANGED shipping_costs
       ELSE /\ shipping_costs' =
                   [v \in DOMAIN shipping_costs |->
                       EffectiveShipping(shipping_costs[v], cfg.cities_im_in)]
            /\ pc' = "table"
            /\ UNCHANGED exc
    /\ UNCHANGED <<cfg, run, vendors, K, available_mandatory, available_optional,
                   unavailable_mandatory, unavailable_optional, validated,
                   solver_calls, status, x, z, y, report>>

----------------------------------------------------------------------------
(* optimise_purchases, L158-199: the price table and the classification *)

\* L159, L160
mandatory_cards_lower == {Lower(c) : c \in cfg.mandatory_cards}
optional_cards_lower == {Lower(c) : c \in cfg.optional_cards}

\* L162, L163
VendorsOf(K_json) == {p[1] : p \in DOMAIN K_json}
AllCardsOf(K_json) == {p[2] : p \in DOMAIN K_json}

\* L165-173: K[key] = price, then K[key] *= vendor_discounts[vendor] for the
\* vendors that have a discount (in tenths)
DiscountedPrice(price, vendor, discounts) ==
    IF vendor \in DOMAIN discounts THEN price * discounts[vendor]
    ELSE Tenths(price)

PriceTable(K_json, discounts) ==
    [p \in DOMAIN K_json |-> DiscountedPrice(K_json[p], p[1], discounts)]

\* L182: min(K.get((v, card), BIG_M) for v in vendors)
MinPrice(KK, VV, card) ==
    MinOf({IF <<v, card>> \in DOMAIN KK THEN KK[<<v, card>>] ELSE Tenths(BIG_M) :
            v \in VV})

\* L186: min_price >= BIG_M is the unavailable branch
IsAvailable(KK, VV, card) == ~(MinPrice(KK, VV, card) >= Tenths(BIG_M))

\* L181-195
BuildPriceTable ==
    /\ pc = "table"
    /\ LET VV == VendorsOf(cfg.K_json)
           all_cards == AllCardsOf(cfg.K_json)
           KK == PriceTable(cfg.K_json, cfg.vendor_discounts)
           mand == {c \in all_cards : c \in mandatory_cards_lower}
           opt == {c \in all_cards : c \notin mandatory_cards_lower
                                      /\ c \in optional_cards_lower}
       IN  /\ vendors' = VV
           /\ K' = KK
           /\ available_mandatory' = {c \in mand : IsAvailable(KK, VV, c)}
           /\ unavailable_mandatory' = {c \in mand : ~IsAvailable(KK, VV, c)}
           /\ available_optional' = {c \in opt : IsAvailable(KK, VV, c)}
           /\ unavailable_optional' = {c \in opt : ~IsAvailable(KK, VV, c)}
    /\ pc' = "validate"
    /\ UNCHANGED <<cfg, shipping_costs, run, validated, solver_calls, status,
                   x, z, y, exc, report>>

\* L198, L199
cards == available_mandatory \cup available_optional
unavailable_cards == unavailable_mandatory \cup unavailable_optional

----------------------------------------------------------------------------
(* validate_tag_constraints, L10-77 *)

\* card_tags.get(c.lower(), [])
TagsOf(c) ==
    IF Lower(c) \in DOMAIN cfg.card_tags THEN cfg.card_tags[Lower(c)] ELSE {}

\* L26, L27 (and L95, L96)
WithTag(cs, tag) == {c \in cs : tag \in TagsOf(c)}

\* L29, L30
MandatoryCount(tag) == Cardinality(WithTag(available_mandatory, tag))
TotalAvailable(tag) ==
    MandatoryCount(tag) + Cardinality(WithTag(available_optional, tag))

\* TagErrors with minimum and maximum checked only when no target is set,
\* the way add_tag_constraints applies them
TagErrorsTargetOnly(tag, constraints) ==
    LET keys == DOMAIN constraints
        mandatory_count == MandatoryCount(tag)
        total_available == TotalAvailable(tag)
    IN  {e \in {"target_over", "target_short", "minimum", "maximum", "min_gt_max"} :
            \/ /\ e = "target_over"
               /\ "target" \in keys
               /\ mandatory_count > constraints["target"]
            \/ /\ e = "target_short"
               /\ "target" \in keys
               /\ ~(mandatory_count > constraints["target"])
               /\ total_available < constraints["target"]
            \/ /\ e = "minimum"
               /\ "target" \notin keys
               /\ "minimum" \in keys
               /\ total_available < constraints["minimum"]
            \/ /\ e = "maximum"
               /\ "target" \notin keys
               /\ "maximum" \in keys
               /\ mandatory_count > constraints["maximum"]
            \/ /\ e = "min_gt_max"
               /\ "target" \notin keys
               /\ "minimum" \in keys
               /\ "maximum" \in keys
               /\ constraints["minimum"] > constraints["maximum"]}

\* L33-71: the checks that fail for one tag
TagErrors(tag, constraints) ==
    LET keys == DOMAIN constraints
        mandatory_count == MandatoryCount(tag)
        total_available == TotalAvailable(tag)
    IN  {e \in {"target_over", "target_short", "minimum", "maximum", "min_gt_max"} :
            \/ /\ e = "target_over"
               /\ "target" \in keys
               /\ mandatory_count > constraints["target"]
            \/ /\ e = "target_short"
               /\ "target" \in keys
               /\ ~(mandatory_count > constraints["target"])
               /\ total_available < constraints["target"]
            \/ /\ e = "minimum"
               /\ "minimum" \in keys
               /\ total_available < constraints["minimum"]
            \/ /\ e = "maximum"
               /\ "maximum" \in keys
               /\ mandatory_count > constraints["maximum"]
            \/ /\ e = "min_gt_max"
               /\ "minimum" \in keys
               /\ "maximum" \in keys
               /\ constraints["minimum"] > constraints["maximum"]}

\* L22-71: errors, over every tag
ValidationErrors ==
    {te \in (DOMAIN cfg.tag_constraints) \X
            {"target_over", "target_short", "minimum", "maximum", "min_gt_max"} :
        te[2] \in TagErrors(te[1], cfg.tag_constraints[te[1]])}

\* L73-75
ValidationError ==
    [type |-> "ValueError", site |-> "validate_tag_constraints",
     detail |-> "Tag constraint validation failed"]

\* Validate with the errors reported but not raised: the call goes on
ValidateWarnOnly ==
    /\ pc = "validate"
    /\ validated' = IF DOMAIN cfg.tag_constraints = {} THEN "skipped"
                    ELSE IF ValidationErrors # {} THEN "failed" ELSE "ok"
    /\ pc' = "solve"
    /\ UNCHANGED <<cfg, shipping_costs, run, vendors, K, available_mandatory,
                   available_optional, unavailable_mandatory, unavailable_optional,
                   solver_calls, status, x, z, y, exc, report>>

\* optimise_purchases L214-217: validation runs only for a non-empty
\* tag_constraints dict, and raises out of optimise_purchases
Validate ==
    /\ pc = "validate"
    /\ IF DOMAIN cfg.tag_constraints = {}
       THEN /\ validated' = "skipped"
            /\ pc' = "solve"
            /\ UNCHANGED exc
       ELSE IF ValidationErrors # {}
       THEN /\ validated' = "failed"
            /\ exc' = ValidationError
            /\ pc' = "raised"
       ELSE /\ validated' = "ok"
            /\ pc' = "solve"
            /\ UNCHANGED exc
    /\ UNCHANGED <<cfg, shipping_costs, run, vendors, K, available_mandatory,
                   available_optional, unavailable_mandatory, unavailable_optional,
                   solver_calls, status, x, z, y, report>>

----------------------------------------------------------------------------
(* optimise_purchases, L219-266: the model *)

\* shipping_costs.get(v, 0), in tenths (L242, L306)
ShippingOf(v) ==
    IF v \in DOMAIN shipping_costs THEN Tenths(shipping_costs[v].cost) ELSE 0

\* lpSum(z[v, c] for v in vendors), of binary values
PurchaseCount(zz, c) == Cardinality({v \in vendors : zz[<<v, c>>] = 1})

\* lpSum(y[c] for c in cs), of binary values
SelectedCount(yy, cs) == Cardinality({c \in cs : yy[c] = 1})

\* L240-244
Objective(zz, xx) ==
    SumOver(vendors \X cards, [p \in vendors \X cards |-> K[p] * zz[p]])
    + SumOver(vendors, [v \in vendors |-> ShippingOf(v) * xx[v]])
    + Tenths(cfg.vendor_penalty) * SumOver(vendors, xx)

\* L247, L248
MandatoryConstraint(zz) ==
    \A c \in available_mandatory : PurchaseCount(zz, c) = 1

\* OptionalConstraint as an inequality: a selected card need not be bought
OptionalConstraintAtMost(zz, yy) ==
    \A c \in available_optional : PurchaseCount(zz, c) <= yy[c]

\* L251, L252
OptionalConstraint(zz, yy) ==
    \A c \in available_optional : PurchaseCount(zz, c) = yy[c]

\* ActualMin without the clamp of L256
ActualMinUnclamped(min_optional_cards, n_available) == min_optional_cards

\* L256
ActualMin(min_optional_cards, n_available) == Min2(min_optional_cards, n_available)

\* L255-257
MinOptionalConstraint(yy) ==
    (available_optional # {} /\ cfg.min_optional_cards > 0) =>
        SelectedCount(yy, available_optional) >=
            ActualMin(cfg.min_optional_cards, Cardinality(available_optional))

\* add_tag_constraints L101-104
TagTotal(yy, tag) ==
    Cardinality(WithTag(available_mandatory, tag))
    + SelectedCount(yy, WithTag(available_optional, tag))

\* TagConstraint with the target applied as a lower bound only
TagConstraintTargetAsMinimum(yy, tag, constraints) ==
    IF "target" \in DOMAIN constraints
    THEN TagTotal(yy, tag) >= constraints["target"]
    ELSE /\ "minimum" \in DOMAIN constraints =>
                TagTotal(yy, tag) >= constraints["minimum"]
         /\ "maximum" \in DOMAIN constraints =>
                TagTotal(yy, tag) <= constraints["maximum"]

\* add_tag_constraints L107-115, for one tag
TagConstraint(yy, tag, constraints) ==
    IF "target" \in DOMAIN constraints
    THEN TagTotal(yy, tag) = constraints["target"]
    ELSE /\ "minimum" \in DOMAIN constraints =>
                TagTotal(yy, tag) >= constraints["minimum"]
         /\ "maximum" \in DOMAIN constraints =>
                TagTotal(yy, tag) <= constraints["maximum"]

\* L260, L261 and add_tag_constraints L93
TagConstraints(yy) ==
    \A tag \in DOMAIN cfg.tag_constraints :
        TagConstraint(yy, tag, cfg.tag_constraints[tag])

\* LinkConstraint with the inequality turned round
LinkConstraintReversed(zz, xx) ==
    \A v \in vendors : \A c \in cards : zz[<<v, c>>] >= xx[v]

\* L264-266
LinkConstraint(zz, xx) ==
    \A v \in vendors : \A c \in cards : zz[<<v, c>>] <= xx[v]

\* the feasible region of the model: the binary assignments of z (L223),
\* y (L234) and x (L228) that meet every constraint
Feasible ==
    UNION {
      UNION {
        {[z |-> zz, y |-> yy, x |-> xx] :
            xx \in {xv \in [vendors -> {0, 1}] : LinkConstraint(zz, xv)}} :
        yy \in {yv \in [available_optional -> {0, 1}] :
                    /\ OptionalConstraint(zz, yv)
                    /\ MinOptionalConstraint(yv)
                    /\ TagConstraints(yv)}} :
      zz \in {zv \in [vendors \X cards -> {0, 1}] : MandatoryConstraint(zv)}}

\* the assignments an exact solver may return with status Optimal
Optimal(feasible) ==
    LET best == MinOf({Objective(s.z, s.x) : s \in feasible})
    IN  {s \in feasible : Objective(s.z, s.x) = best}

\* L241: K[v, c] is read for every vendor and every candidate card
ObjectiveKeysPresent == \A p \in vendors \X cards : p \in DOMAIN K

\* L219-270: build the model and call the solver. The solver is external:
\* it answers Optimal with a minimiser, Infeasible when there is none, or
\* fails to decide (Not Solved, Undefined).
Solve ==
    /\ pc = "solve"
    /\ IF ~ObjectiveKeysPresent
       THEN /\ exc' = KeyError("objective")
            /\ pc' = "raised"
            /\ UNCHANGED <<solver_calls, status, x, z, y>>
       ELSE /\ solver_calls' = solver_calls + 1
            /\ pc' = "status"
            /\ UNCHANGED exc
            /\ LET feasible == Feasible
               IN  \/ /\ feasible = {}
                      /\ status' = "Infeasible"
                      /\ UNCHANGED <<x, z, y>>
                   \/ \E s \in Optimal(feasible) :
                         /\ status' = "Optimal"
                         /\ x' = s.x
                         /\ z' = s.z
                         /\ y' = s.y
                   \/ /\ status' \in {"Not Solved", "Undefined"}
                      /\ UNCHANGED <<x, z, y>>
    /\ UNCHANGED <<cfg, shipping_costs, run, vendors, K, available_mandatory,
                   available_optional, unavailable_mandatory, unavailable_optional,
                   validated, report>>

----------------------------------------------------------------------------
(* optimise_purchases, L272-287: the solver's status *)

\* L275-280
SolverInfeasibleError(status_name) ==
    [type |-> "ValueError", site |-> "solver_infeasible", detail |-> status_name]

\* L281-285
SolverOtherError(status_name) ==
    [type |-> "ValueError", site |-> "solver_other", detail |-> status_name]

\* L273: the call returns only for LpStatusOptimal
ReturnsSolution(st) == st = "Optimal"

\* L272-287
CheckStatus ==
    /\ pc = "status"
    /\ IF ReturnsSolution(status)
       THEN /\ pc' = "returned"
            /\ UNCHANGED exc
       ELSE /\ pc' = "raised"
            /\ exc' = IF status = "Infeasible"
                      THEN SolverInfeasibleError(status)
                      ELSE SolverOtherError(status)
    /\ UNCHANGED <<cfg, shipping_costs, run, vendors, K, available_mandatory,
                   available_optional, unavailable_mandatory, unavailable_optional,
                   validated, solver_calls, status, x, z, y, report>>

----------------------------------------------------------------------------
(* save_results, L290-351 *)

\* L300
PurchasedCards(v) == {c \in cards : z[<<v, c>>] = 1}

\* L302-305: the vendors whose block is written
ReportedVendors == {v \in vendors : PurchasedCards(v) # {} /\ x[v] = 1}

\* L311: the key the price is read under
PriceKey(v, c) == <<Lower(v), Lower(c)>>

\* L306-323: one vendor's block
VendorBlock(v) ==
    LET prices == [c \in PurchasedCards(v) |-> K[PriceKey(v, c)]]
    IN  [shipping |-> ShippingOf(v),
         prices |-> prices,
         subtotal |-> ShippingOf(v) + SumOver(PurchasedCards(v), prices)]

\* the vendors whose every price lookup (L311) succeeds
LookupSucceeds(v) == \A c \in PurchasedCards(v) : PriceKey(v, c) \in DOMAIN K

\* L292-343, run to the end
FullReport ==
    LET blocks == [v \in ReportedVendors |-> VendorBlock(v)]
        bought == UNION {PurchasedCards(v) : v \in ReportedVendors}
    IN  [written |-> "complete",
         blocks |-> blocks,
         total_cost |-> SumOver(ReportedVendors,
                                [v \in ReportedVendors |-> blocks[v].subtotal]),
         mandatory_purchased |->
             SumOver(ReportedVendors,
                     [v \in ReportedVendors |->
                         Cardinality(PurchasedCards(v) \ available_optional)]),
         optional_purchased |->
             SumOver(ReportedVendors,
                     [v \in ReportedVendors |->
                         Cardinality(PurchasedCards(v) \cap available_optional)]),
         optional_not_purchased |-> {c \in available_optional : y[c] = 0},
         unavailable_cards |-> unavailable_cards]

\* L309-315 cut short: the Buy lines written for a vendor before a price
\* lookup of its block fails (no subtotal is written)
CutBlock(v, written_cards) ==
    [shipping |-> ShippingOf(v),
     prices |-> [c \in written_cards |-> K[PriceKey(v, c)]],
     subtotal |-> None]

\* the file as a failed price lookup leaves it: the blocks of the vendors
\* the loop of L299 reached before the failing one, the failing vendor's
\* block so far, and no totals
PartialReport(done, failing, written_cards) ==
    [written |-> "partial",
     blocks |-> [v \in done \cup {failing} |->
                    IF v = failing THEN CutBlock(v, written_cards)
                    ELSE VendorBlock(v)]]

\* main L200 and save_results. Vendors and cards are iterated in set order,
\* so any of the vendors (cards) whose lookups succeed may precede the
\* failing one.
SaveResults ==
    /\ pc = "returned"
    /\ IF \A v \in ReportedVendors : LookupSucceeds(v)
       THEN /\ report' = FullReport
            /\ pc' = "saved"
            /\ UNCHANGED exc
       ELSE /\ \E failing \in {v \in ReportedVendors : ~LookupSucceeds(v)} :
               \E done \in SUBSET {v \in ReportedVendors : LookupSucceeds(v)} :
               \E written_cards \in
                    SUBSET {c \in PurchasedCards(failing) :
                               PriceKey(failing, c) \in DOMAIN K} :
                   report' = PartialReport(done, failing, written_cards)
            /\ exc' = KeyError("save_results")
            /\ pc' = "raised"
    /\ UNCHANGED <<cfg, shipping_costs, run, vendors, K, available_mandatory,
                   available_optional, unavailable_mandatory, unavailable_optional,
                   validated, solver_calls, status, x, z, y>>

----------------------------------------------------------------------------
(* A caller that invokes optimise_purchases again with the objects of the  *)
(* first call, after a run that ended in a result or in a ValueError it    *)
(* caught (main L178-196).                                                 *)

Rerun ==
    /\ run < MaxRuns
    /\ \/ pc = "saved"
       \/ pc = "raised" /\ exc.type = "ValueError"
    /\ run' = run + 1
    /\ pc' = "start"
    /\ vendors' = {}
    /\ K' = [p \in {} |-> 0]
    /\ available_mandatory' = {}
    /\ available_optional' = {}
    /\ unavailable_mandatory' = {}
    /\ unavailable_optional' = {}
    /\ validated' = "pending"
    /\ solver_calls' = 0
    /\ status' = None
    /\ x' = NoSolution
    /\ z' = NoSolution
    /\ y' = NoSolution
    /\ exc' = NoExc
    /\ report' = NoReport
    /\ UNCHANGED <<cfg, shipping_costs>>

Next ==
    \/ ResolveShipping
    \/ BuildPriceTable
    \/ Validate
    \/ Solve
    \/ CheckStatus
    \/ SaveResults
    \/ Rerun

Spec == Init /\ [][Next]_vars

----------------------------------------------------------------------------
(* Properties *)

\* the solver answered Optimal in this call
Solved == status = "Optimal"

\* the locals of L162-199 hold the classification of this call
Classified ==
    \/ pc \in {"validate", "solve", "status", "returned", "saved"}
    \/ pc = "raised" /\ exc.site # "resolve_shipping"

\* the call is past L214-217
PastValidation ==
    \/ pc \in {"solve", "status", "returned", "saved"}
    \/ pc = "raised" /\ exc.site # "resolve_shipping"

\* save_results has ended, by returning or by raising
SaveEnded ==
    \/ pc = "saved"
    \/ pc = "raised" /\ exc.site = "save_results"

\* the vendors that purchase card c in the solution
Purchasers(c) == {v \in vendors : z[<<v, c>>] = 1}

\* the vendors under which save_results wrote a Buy line for card c
WrittenUnder(c) ==
    {v \in DOMAIN report.blocks : c \in DOMAIN report.blocks[v].prices}

\* the value of the objective at the solution
ObjectiveValue == Objective(z, x)

(* C1, the purchase variables: in a solved instance every available        *)
(* mandatory card has exactly one vendor v with purchase[v, card] = 1.     *)
C1_PurchaseVariables ==
    Solved => \A c \in available_mandatory : Cardinality(Purchasers(c)) = 1

(* C1: in every solved instance each available mandatory card is purchased *)
(* from exactly one vendor, and once save_results has run the card appears *)
(* in exactly one vendor's purchased list of the report.                   *)
C1_ExactlyOneVendor ==
    /\ C1_PurchaseVariables
    /\ SaveEnded =>
          \A c \in available_mandatory : Cardinality(WrittenUnder(c)) = 1

(* C2: in every solved instance, for every available optional card c,      *)
(* select_optional[c] = 1 iff some vendor purchases c, and then exactly    *)
(* one does; select_optional[c] = 0 iff no vendor purchases c.             *)
C2_SelectIffPurchased ==
    Solved =>
        \A c \in available_optional :
            /\ y[c] \in {0, 1}
            /\ (y[c] = 1) <=> (Purchasers(c) # {})
            /\ (y[c] = 1) => Cardinality(Purchasers(c)) = 1
            /\ (y[c] = 0) <=> (Purchasers(c) = {})

C2_Witness ==
    /\ Solved
    /\ \E c \in available_optional : y[c] = 1 /\ Cardinality(Purchasers(c)) = 1
    /\ \E c \in available_optional : y[c] = 0 /\ Purchasers(c) = {}

\* what the activated vendors cost: their purchased cards, their effective
\* shipping and the penalty, once each
ActivatedCost ==
    LET active == {v \in vendors : x[v] = 1}
    IN  SumOver(active,
                [v \in active |->
                    SumOver(PurchasedCards(v), [c \in PurchasedCards(v) |-> K[<<v, c>>]])
                    + ShippingOf(v) + Tenths(cfg.vendor_penalty)])

(* C3: in every solved instance a vendor with use_vendor = 0 has no card   *)
(* purchased from it, the total is made up of the activated vendors'       *)
(* purchases, shipping and penalty alone, and no block of the report is    *)
(* written for it.                                                         *)
C3_UnusedVendorExcluded ==
    Solved =>
        /\ \A v \in vendors : x[v] = 0 => \A c \in cards : z[<<v, c>>] = 0
        /\ ObjectiveValue = ActivatedCost
        /\ SaveEnded => \A v \in DOMAIN report.blocks : x[v] = 1

C3_Witness ==
    /\ pc = "saved"
    /\ \E v \in vendors : x[v] = 0 /\ ShippingOf(v) + Tenths(cfg.vendor_penalty) > 0
    /\ \E v \in vendors : x[v] = 1 /\ PurchasedCards(v) # {}

\* the purchased cards that bear a tag
PurchasedWithTag(tag) == {c \in WithTag(cards, tag) : Purchasers(c) # {}}

\* the tags that have a target
TargetTags == {t \in DOMAIN cfg.tag_constraints : "target" \in DOMAIN cfg.tag_constraints[t]}

\* target T of a tag cannot be met by the available cards
TargetUnreachable(tag) ==
    \/ MandatoryCount(tag) > cfg.tag_constraints[tag]["target"]
    \/ TotalAvailable(tag) < cfg.tag_constraints[tag]["target"]

(* C4: for a tag with target T, every optimal solution purchases exactly T *)
(* cards bearing the tag (the available mandatory ones plus the selected   *)
(* optional ones), and when T is statically unreachable the call ends in   *)
(* validate_tag_constraints, before any solve.                             *)
C4_TargetExact ==
    \A tag \in TargetTags :
        /\ Solved =>
              /\ Cardinality(PurchasedWithTag(tag)) = cfg.tag_constraints[tag]["target"]
              /\ MandatoryCount(tag)
                    + SelectedCount(y, WithTag(available_optional, tag))
                 = cfg.tag_constraints[tag]["target"]
        /\ (PastValidation /\ TargetUnreachable(tag)) =>
              /\ pc = "raised"
              /\ exc = ValidationError
              /\ solver_calls = 0

\* a target met by one mandatory and one of two optional cards
C4_Witness ==
    /\ Solved
    /\ \E tag \in TargetTags :
          /\ cfg.tag_constraints[tag]["target"] = 2
          /\ MandatoryCount(tag) = 1
          /\ Cardinality(WithTag(available_optional, tag)) = 2
          /\ Cardinality(PurchasedWithTag(tag)) = 2

\* a target the mandatory cards already exceed, rejected by the validator
C4_WitnessUnreachable ==
    /\ pc = "raised"
    /\ exc = ValidationError
    /\ \E tag \in TargetTags : MandatoryCount(tag) > cfg.tag_constraints[tag]["target"]

(* C5: within one call the solver is invoked only after tag validation has *)
(* returned normally (or was not due, for an empty tag_constraints), and   *)
(* whenever a validator check fails the call ends with the validation      *)
(* error and the solver is never invoked.                                  *)
C5_ValidateBeforeSolve ==
    /\ solver_calls > 0 =>
          \/ validated = "ok"
          \/ validated = "skipped" /\ DOMAIN cfg.tag_constraints = {}
    /\ (PastValidation /\ DOMAIN cfg.tag_constraints # {} /\ ValidationErrors # {}) =>
          /\ pc = "raised"
          /\ exc = ValidationError
          /\ solver_calls = 0
    /\ validated = "failed" => solver_calls = 0

\* Scenario D: maximum = 1 with two available mandatory cards bearing the tag
C5_Witness ==
    /\ pc = "raised"
    /\ exc = ValidationError
    /\ solver_calls = 0
    /\ \E tag \in DOMAIN cfg.tag_constraints :
          /\ DOMAIN cfg.tag_constraints[tag] = {"maximum"}
          /\ cfg.tag_constraints[tag]["maximum"] = 1
          /\ MandatoryCount(tag) = 2

\* some vendor's price record offers the card strictly below the sentinel
OfferedBelowSentinel(card) ==
    \E v \in VendorsOf(cfg.K_json) :
        /\ <<v, card>> \in DOMAIN cfg.K_json
        /\ cfg.K_json[<<v, card>>] < BIG_M

\* the price-record cards that are on the buyer's lists
ListedCards ==
    {c \in AllCardsOf(cfg.K_json) :
        c \in mandatory_cards_lower \/ c \in optional_cards_lower}

(* C6: a card is classified available iff some vendor offers it at a price *)
(* strictly below the sentinel 9999, whatever discount multipliers are     *)
(* configured; a card every vendor lists at the sentinel (or does not      *)
(* list) is unavailable and kept out of the candidate set.                 *)
C6_AvailableIffOffered ==
    Classified =>
        \A c \in ListedCards :
            /\ (c \in cards) <=> OfferedBelowSentinel(c)
            /\ (c \in unavailable_cards) <=> ~OfferedBelowSentinel(c)

(* C7: the total cost of a solved plan counts, for every activated vendor, *)
(* the prices of its purchased cards, its effective shipping cost and the  *)
(* vendor penalty once, and the grand total save_results reports equals    *)
(* the model's optimal objective value.                                    *)
C7_TotalIsObjective ==
    /\ Solved => ObjectiveValue = ActivatedCost
    /\ pc = "saved" => report.total_cost = ObjectiveValue

(* C8: a run does not alter the inputs a later run reads, and a second run *)
(* on the same objects builds the model the first run built.               *)
C8_RerunUnchanged ==
    /\ shipping_costs = cfg.shipping_input
    /\ run > 1 => ~(pc = "raised" /\ exc.site = "resolve_shipping")

\* the exception type each failure of optimise_purchases is raised with
FailureType(site) ==
    CASE site = "validate_tag_constraints" -> ValidationError.type
      [] site = "solver_infeasible" -> SolverInfeasibleError("Infeasible").type
      [] site = "solver_other" -> SolverOtherError("Undefined").type

FailureSites == {"validate_tag_constraints", "solver_infeasible", "solver_other"}

(* C9, the status mapping: optimise_purchases returns only for status      *)
(* Optimal; Infeasible raises the solver-infeasible failure, any other     *)
(* status the solver-other failure carrying the raw status name.           *)
C9_StatusMapping ==
    /\ pc \in {"returned", "saved"} => status = "Optimal"
    /\ (pc = "raised" /\ exc.site = "solver_infeasible") => status = "Infeasible"
    /\ (pc = "raised" /\ exc.site = "solver_other") =>
          /\ status \notin {"Optimal", "Infeasible"}
          /\ exc.detail = status
    /\ (pc = "raised" /\ status = "Infeasible") => exc.site = "solver_infeasible"

(* C9: the status mapping holds, and the two solver failures and the       *)
(* static tag-validation failure reach the caller as distinct, typed       *)
(* failures: the type of the one raised is the type of no other.           *)
C9_DistinctTypedFailures ==
    /\ C9_StatusMapping
    /\ (pc = "raised" /\ exc.site \in FailureSites) =>
          \A other \in FailureSites \ {exc.site} : exc.type # FailureType(other)

\* the optional cards purchased in the solution
PurchasedOptional == {c \in available_optional : Purchasers(c) # {}}

(* C10: with a minimum optional count m > 0, every solved instance selects *)
(* (and purchases) at least min(m, number of available optional cards)     *)
(* optional cards, and with no tag constraints the model is never          *)
(* infeasible, however large m is.                                         *)
C10_MinOptionalClamped ==
    /\ (Solved /\ cfg.min_optional_cards > 0) =>
          /\ SelectedCount(y, available_optional) >=
                Min2(cfg.min_optional_cards, Cardinality(available_optional))
          /\ Cardinality(PurchasedOptional) >=
                Min2(cfg.min_optional_cards, Cardinality(available_optional))
    /\ DOMAIN cfg.tag_constraints = {} => status # "Infeasible"

\* Scenario C: minimum 2 configured, one optional card available, solved
C10_Witness ==
    /\ Solved
    /\ cfg.min_optional_cards = 2
    /\ DOMAIN cfg.tag_constraints = {}
    /\ Cardinality(available_optional) = 1
    /\ Cardinality(PurchasedOptional) = 1

\* the price-record card matches an entry of the list up to letter case
MatchesList(card, list) == \E e \in list : Lower(e) = Lower(card)

(* C11: classification of price-record cards is case-insensitive: a record *)
(* card that equals an entry of the mandatory (optional) list up to letter *)
(* case is classified mandatory (optional), whatever the casing of the     *)
(* record or of the entry; only a card on neither list is ignored.         *)
C11_CaseInsensitiveClassification ==
    Classified =>
        \A c \in AllCardsOf(cfg.K_json) :
            /\ MatchesList(c, cfg.mandatory_cards) <=>
                  c \in available_mandatory \cup unavailable_mandatory
            /\ (MatchesList(c, cfg.optional_cards)
                    /\ ~MatchesList(c, cfg.mandatory_cards)) <=>
                  c \in available_optional \cup unavailable_optional

\* the mandatory price-record cards that every vendor lists at the sentinel
SentinelOnlyMandatory ==
    {c \in AllCardsOf(cfg.K_json) :
        /\ c \in mandatory_cards_lower
        /\ \A v \in VendorsOf(cfg.K_json) :
               /\ <<v, c>> \in DOMAIN cfg.K_json
               /\ cfg.K_json[<<v, c>>] = BIG_M}

(* C12: a mandatory card that every vendor lists only at the sentinel 9999 *)
(* is put in the unavailable-card list and gets no purchase variable, and  *)
(* a returned plan purchases every remaining available mandatory card      *)
(* exactly once.                                                           *)
C12_SentinelMandatoryExcluded ==
    /\ Classified =>
           \A c \in SentinelOnlyMandatory :
               /\ c \in unavailable_mandatory
               /\ c \notin cards
    /\ pc = "returned" =>
           \A c \in available_mandatory \ SentinelOnlyMandatory :
               Cardinality(Purchasers(c)) = 1

\* the tag totals that some selection of the available optional cards
\* bearing the tag can produce (every available mandatory card is bought)
ReachableTagTotals(tag) ==
    {MandatoryCount(tag) + Cardinality(S) :
        S \in SUBSET WithTag(available_optional, tag)}

\* one declared key, taken alone, can be met by some selection
KeySatisfiable(tag, key, n) ==
    \E total \in ReachableTagTotals(tag) :
        CASE key = "target" -> total = n
          [] key = "minimum" -> total >= n
          [] key = "maximum" -> total <= n

\* the constraint of the tag as add_tag_constraints applies it (target
\* alone when set, otherwise minimum and maximum) can be met
AppliedSatisfiable(tag, constraints) ==
    \E total \in ReachableTagTotals(tag) :
        IF "target" \in DOMAIN constraints
        THEN total = constraints["target"]
        ELSE /\ "minimum" \in DOMAIN constraints => total >= constraints["minimum"]
             /\ "maximum" \in DOMAIN constraints => total <= constraints["maximum"]

\* some declared key of the tag cannot be met alone, or minimum > maximum
DeclaredUnsatisfiable(tag, constraints) ==
    \/ \E key \in DOMAIN constraints :
           ~KeySatisfiable(tag, key, constraints[key])
    \/ /\ {"minimum", "maximum"} \subseteq DOMAIN constraints
       /\ constraints["minimum"] > constraints["maximum"]

(* C13 as stated: validate_tag_constraints raises only if the constraint   *)
(* of some tag, as add_tag_constraints applies it (target alone when       *)
(* target is set), can be met by no selection of the available optional    *)
(* cards bearing the tag.                                                  *)
C13_RejectsOnlyAppliedUnsatisfiable ==
    validated = "failed" =>
        \E tag \in DOMAIN cfg.tag_constraints :
            ~AppliedSatisfiable(tag, cfg.tag_constraints[tag])

(* C13 amended: validate_tag_constraints raises iff, for some tag, a       *)
(* declared key (target, minimum or maximum, whether or not                *)
(* add_tag_constraints applies it) can be met alone by no selection of the *)
(* available optional cards bearing the tag, or minimum exceeds maximum.   *)
C13_RejectsIffDeclaredUnsatisfiable ==
    validated \in {"ok", "failed"} =>
        (validated = "failed" <=>
            \E tag \in DOMAIN cfg.tag_constraints :
                DeclaredUnsatisfiable(tag, cfg.tag_constraints[tag]))

\* rejected although the target, which alone would be applied, can be met:
\* the minimum declared beside it cannot
C13_Witness ==
    /\ validated = "failed"
    /\ pc = "raised"
    /\ \E tag \in DOMAIN cfg.tag_constraints :
           /\ {"target", "minimum"} \subseteq DOMAIN cfg.tag_constraints[tag]
           /\ AppliedSatisfiable(tag, cfg.tag_constraints[tag])
           /\ ~KeySatisfiable(tag, "minimum", cfg.tag_constraints[tag]["minimum"])

(* C14: for every purchased (vendor, card) pair of a solved instance,      *)
(* save_results completes without a failed price lookup, reports the       *)
(* price-table entry of that same pair, keyed by the vendor identifier as  *)
(* supplied, and adds it to that vendor's subtotal, for any letter casing  *)
(* of the vendor identifiers.                                              *)
C14_ReportsPurchasedPairPrice ==
    SaveEnded =>
        /\ pc = "saved"
        /\ \A v \in ReportedVendors :
               /\ v \in DOMAIN report.blocks
               /\ DOMAIN report.blocks[v].prices = PurchasedCards(v)
               /\ \A c \in PurchasedCards(v) :
                      report.blocks[v].prices[c] = K[<<v, c>>]
               /\ report.blocks[v].subtotal =
                      ShippingOf(v)
                          + SumOver(PurchasedCards(v),
                                    [c \in PurchasedCards(v) |-> K[<<v, c>>]])

\* C14, the price half alone: a written Buy line carries the price of the
\* pair it names
C14_NeverAnotherVendorsPrice ==
    pc = "saved" =>
        \A v \in ReportedVendors :
            \A c \in PurchasedCards(v) :
                report.blocks[v].prices[c] = K[<<v, c>>]

\* the card names of the report that equal a list entry up to letter case
ReportNames(entry) ==
    {n \in AllCardsOf(cfg.K_json) \cup {Lower(entry)} : Lower(n) = Lower(entry)}

\* the list entry is purchased from exactly one vendor in the report, or is
\* in its unavailable-card list
AccountedFor(entry) ==
    \E n \in ReportNames(entry) :
        \/ Cardinality(WrittenUnder(n)) = 1
        \/ n \in report.unavailable_cards

(* C15: after a successful run every card of the buyer's mandatory list is *)
(* either purchased from exactly one vendor or listed in the               *)
(* unavailable-card list, a card without any price record included.        *)
C15_MandatoryAccountedFor ==
    pc = "saved" => \A entry \in cfg.mandatory_cards : AccountedFor(entry)

====
